---- MODULE Spec2Model ----
(***************************************************************************)
(* Model of the plugin wrappers of this repository:                        *)
(*   - the HyperTrack facade (src/unnamed/part_001), which adapts the      *)
(*     callback-pair native instance HyperTrackCordova to promises and     *)
(*     observables, and its Coordinates value class;                       *)
(*   - the WebSocketServer wrapper                                         *)
(*     (src/src/@ionic-native/plugins/web-socket-server/index.ts).         *)
(* The native side is the environment: it may invoke any callback it was   *)
(* handed, with any value, any number of times.                            *)
(***************************************************************************)
EXTENDS Integers, Sequences, FiniteSets, TLC

VARIABLES
    inits,       \* calls of HyperTrack.initialize, in call order
    calls,       \* calls of the promise-returning facade methods, in call order
    nativeLog,   \* invocations of HyperTrackCordova methods, in invocation order
    observables, \* Observables returned by trackingStateChange / availabilityStateChange
    subs,        \* subscriptions to those Observables
    coord,       \* the Coordinates construction under way (inputs and outcome)
    wsCalls      \* calls of the WebSocketServer wrapper methods

vars == <<inits, calls, nativeLog, observables, subs, coord, wsCalls>>

----------------------------------------------------------------------------
(* Bounds of the model. *)

MaxInits == 1
MaxCalls == 1
MaxFires == 2
MaxStreamOps == 3
MaxEvents == 3
MaxDisposeOps == 3
MaxDisposeEvents == 1
Margin == 2
MaxWsCalls == 2
MaxWsFires == 2

----------------------------------------------------------------------------
(* JavaScript values that cross the native boundary. *)

Undefined == "undefined"
Vals == {Undefined, "v1", "v2"}
Errors == {"e1", "e2"}
Keys == {"pk_live_abc"}
Handles == {"h1", "h2"}
Strs == {"s1", "s2"}

(* A JavaScript number: an integer number of degrees, or NaN.  Every        *)
(* relational comparison with NaN is false.                                 *)
NaN == [nan |-> TRUE, n |-> 0]
Num(n) == [nan |-> FALSE, n |-> n]
Lt(a, b) == ~a.nan /\ ~b.nan /\ a.n < b.n
Gt(a, b) == ~a.nan /\ ~b.nan /\ a.n > b.n

(* A Promise: settles at most once; resolve and reject of a settled        *)
(* promise do nothing.                                                      *)
PendingPromise == [state |-> "pending", value |-> Undefined]
PromiseResolve(p, v) ==
    IF p.state = "pending" THEN [state |-> "fulfilled", value |-> v] ELSE p
PromiseReject(p, e) ==
    IF p.state = "pending" THEN [state |-> "rejected", value |-> e] ELSE p

----------------------------------------------------------------------------
(* Coordinates (part_001, lines 83-92). *)

LatMin == -90
LatMax == 90
LonMin == -180
LonMax == 180

(* The constructor's test: mutated, it also rejects the upper bounds.       *)
CoordinatesInvalidInclusive(latitude, longitude) ==
    \/ Lt(latitude, Num(LatMin))
    \/ ~Lt(latitude, Num(LatMax))
    \/ Lt(longitude, Num(LonMin))
    \/ ~Lt(longitude, Num(LonMax))

CoordinatesInvalid(latitude, longitude) ==
    \/ Lt(latitude, Num(LatMin))
    \/ Gt(latitude, Num(LatMax))
    \/ Lt(longitude, Num(LonMin))
    \/ Gt(longitude, Num(LonMax))

(* An object is its class and its own properties, a set of name/value      *)
(* pairs.  The constructor's parameters carry no accessibility modifier     *)
(* and its body assigns nothing to `this`: the object has no own property.  *)
NoObject == [class |-> "none", props |-> {}]
CoordinatesObject(latitude, longitude) == [class |-> "Coordinates", props |-> {}]

(* new Coordinates(latitude, longitude): what is thrown, what is built.     *)
CoordinatesConstructor(latitude, longitude) ==
    IF CoordinatesInvalid(latitude, longitude)
    THEN [thrown |-> "CoordinatesValidationError", object |-> NoObject]
    ELSE [thrown |-> "none", object |-> CoordinatesObject(latitude, longitude)]

HasProp(o, name, value) == [name |-> name, value |-> value] \in o.props

(* The numbers a caller may pass: around each limit, the origin, and NaN.   *)
Around(limit) == {Num(n) : n \in (limit - Margin)..(limit + Margin)}
Latitudes == Around(LatMin) \cup Around(LatMax) \cup {Num(0), NaN}
Longitudes == Around(LonMin) \cup Around(LonMax) \cup {Num(0), NaN}

CoordIdle == [latitude |-> Num(0), longitude |-> Num(0), pc |-> "idle",
              thrown |-> "none", object |-> NoObject]

(* The caller evaluates `new Coordinates(latitude, longitude)`.  An         *)
(* exception leaves the constructor in the same step: it is synchronous.    *)
NewCoordinates ==
    /\ coord.pc = "new"
    /\ LET r == CoordinatesConstructor(coord.latitude, coord.longitude)
       IN coord' = [coord EXCEPT !.pc = IF r.thrown = "none" THEN "returned" ELSE "thrown",
                                 !.thrown = r.thrown,
                                 !.object = r.object]
    /\ UNCHANGED <<inits, calls, nativeLog, observables, subs, wsCalls>>

InitCoord ==
    /\ inits = <<>>
    /\ calls = <<>>
    /\ nativeLog = <<>>
    /\ observables = <<>>
    /\ subs = <<>>
    /\ wsCalls = <<>>
    /\ \E latitude \in Latitudes, longitude \in Longitudes :
          coord = [latitude |-> latitude, longitude |-> longitude, pc |-> "new",
                   thrown |-> "none", object |-> NoObject]

NextCoord == NewCoordinates

SpecCoord == InitCoord /\ [][NextCoord]_vars

----------------------------------------------------------------------------
(* The HyperTrack facade (part_001, lines 131-376). *)

(* Methods whose success callback takes the result and resolves with it,   *)
(* and methods whose success callback takes nothing and calls resolve().   *)
ValueOps == {"getDeviceId", "isRunning", "isTracking", "getAvailability"}
VoidOps == {"setDeviceName", "setDeviceMetadata", "setTrackingNotificationProperties",
            "addGeotag", "requestPermissionsIfNecessary", "allowMockLocations",
            "syncDeviceSettings", "start", "stop", "setAvailability"}
DisposeOps == {"disposeTrackingState", "disposeAvailabilityState"}
PromiseOps == ValueOps \cup VoidOps
StreamOps == {"trackingStateChange", "availabilityStateChange"}

(* The method of HyperTrackCordova a facade method invokes.                 *)
NativeMethod(op) == IF op = "addGeotag" THEN "addGeoTag" ELSE op

(* HyperTrack's private constructor: the instance keeps the handle.         *)
HyperTrackNew(cordovaInstance) == [cordovaInstanceHandle |-> cordovaInstance]

(* initialize's reactions to the plugin's promise: mutated, the instance   *)
(* is built around a handle other than the one received.                    *)
InitializeThenOther(p, cordovaInstance) ==
    PromiseResolve(p, HyperTrackNew(CHOOSE h \in Handles : h # cordovaInstance))

InitializeThen(p, cordovaInstance) == PromiseResolve(p, HyperTrackNew(cordovaInstance))
InitializeCatch(p, err) == PromiseReject(p, err)

(* The success and failure callbacks a promise-returning method hands to   *)
(* the native method, applied to the method's promise.                      *)
(* Mutated: every success callback forwards what it receives; the failure  *)
(* callback writes the outcome without regard to an earlier settlement.     *)
OnSuccessForward(op, p, v) == PromiseResolve(p, v)
OnFailureOverwrite(op, p, err) == [state |-> "rejected", value |-> err]

OnSuccess(op, p, v) ==
    IF op \in ValueOps THEN PromiseResolve(p, v) ELSE PromiseResolve(p, Undefined)
OnFailure(op, p, err) == PromiseReject(p, err)

(* One entry of the native log. `call` and `sub` name the facade call or   *)
(* the subscription whose callbacks the native method received (0: none).  *)
Invocation(method, handle, args, call, sub) ==
    [method |-> method, handle |-> handle, args |-> args, call |-> call, sub |-> sub]

(* What a promise-returning method invokes: mutated, it invokes twice.      *)
FacadeInvokeTwice(op, this, args, c) ==
    << Invocation(NativeMethod(op), this.cordovaInstanceHandle, args, c, 0),
       Invocation(NativeMethod(op), this.cordovaInstanceHandle, args, c, 0) >>

FacadeInvoke(op, this, args, c) ==
    << Invocation(NativeMethod(op), this.cordovaInstanceHandle, args, c, 0) >>

(* The arguments a caller passes.  An expected location is undefined or a  *)
(* Coordinates the caller has constructed; `geo` keeps what it was built   *)
(* from.                                                                    *)
GeotagData == {"d1", "d2"}
GeoSamples == {<<Num(LatMin), Num(LonMax)>>, <<Num(45), Num(-120)>>}
NoGeo == <<NaN, NaN>>
ArgsOf(op) ==
    CASE op \in {"setDeviceName", "setDeviceMetadata"} -> {<<s>> : s \in Strs}
      [] op = "setTrackingNotificationProperties" -> {<<"s1", "s2">>, <<"s2", "s1">>}
      [] op = "setAvailability" -> {<<b>> : b \in BOOLEAN}
      [] OTHER -> {<<>>}

NoFirst == [kind |-> "none", value |-> Undefined]

(* Native callback invocations so far, over all calls and over all          *)
(* subscriptions.                                                           *)
RECURSIVE SumFired(_)
SumFired(s) == IF s = <<>> THEN 0 ELSE Head(s).fired + SumFired(Tail(s))
RECURSIVE SumHistory(_)
SumHistory(s) ==
    IF s = <<>> THEN 0
    ELSE Len(SelectSeq(Head(s).history, LAMBDA h : h.kind # "unsubscribe"))
         + SumHistory(Tail(s))
CallFires == SumFired(calls)
ListenerFires == SumHistory(subs)
StreamOpsDone == Len(calls) + Len(observables) + Len(subs)

(* HyperTrack.initialize(publishableKey), lines 146-155: the key goes to    *)
(* the plugin's initialize, whose promise the native side settles later.    *)
Initialize(publishableKey) ==
    /\ Len(inits) < MaxInits
    /\ inits' = Append(inits, [key |-> publishableKey,
                               nativeKey |-> publishableKey,
                               native |-> PendingPromise,
                               promise |-> PendingPromise])
    /\ UNCHANGED <<calls, nativeLog, observables, subs, coord, wsCalls>>

(* The plugin's promise resolves with a handle: the then-callback runs.     *)
NativeInitResolve(i, h) ==
    /\ inits[i].native.state = "pending"
    /\ inits' = [inits EXCEPT ![i].native = PromiseResolve(@, h),
                              ![i].promise = InitializeThen(@, h)]
    /\ UNCHANGED <<calls, nativeLog, observables, subs, coord, wsCalls>>

(* The plugin's promise rejects: the catch-callback runs.                   *)
NativeInitReject(i, err) ==
    /\ inits[i].native.state = "pending"
    /\ inits' = [inits EXCEPT ![i].native = PromiseReject(@, err),
                              ![i].promise = InitializeCatch(@, err)]
    /\ UNCHANGED <<calls, nativeLog, observables, subs, coord, wsCalls>>

(* A promise-returning method called on the instance initialize call i     *)
(* resolved with, lines 167-330 and 345-374.                                *)
Call(i, op, args, geo) ==
    /\ inits[i].promise.state = "fulfilled"
    /\ LET this == inits[i].promise.value
           c == Len(calls) + 1
       IN /\ calls' = Append(calls, [op |-> op, init |-> i, args |-> args, geo |-> geo,
                                     promise |-> PendingPromise,
                                     first |-> NoFirst, fired |-> 0])
          /\ nativeLog' = nativeLog \o FacadeInvoke(op, this, args, c)
    /\ UNCHANGED <<inits, observables, subs, coord, wsCalls>>

CallPromiseOp(i, op, args) ==
    /\ Len(calls) < MaxCalls
    /\ Call(i, op, args, NoGeo)

(* addGeotag(geotagData) and addGeotag(geotagData, new Coordinates(..)).    *)
AddGeotag(i, geotagData) ==
    /\ Len(calls) < MaxCalls
    /\ Call(i, "addGeotag", <<geotagData, Undefined>>, NoGeo)

AddGeotagAt(i, geotagData, geo) ==
    /\ Len(calls) < MaxCalls
    /\ LET r == CoordinatesConstructor(geo[1], geo[2])
       IN /\ r.thrown = "none"
          /\ Call(i, "addGeotag", <<geotagData, r.object>>, geo)

(* The native side invokes the success callback of call c with v.           *)
NativeSuccess(c, v) ==
    /\ CallFires < MaxFires
    /\ calls' = [calls EXCEPT ![c].promise = OnSuccess(calls[c].op, @, v),
                              ![c].first = IF @.kind = "none"
                                           THEN [kind |-> "success", value |-> v] ELSE @,
                              ![c].fired = @ + 1]
    /\ UNCHANGED <<inits, nativeLog, observables, subs, coord, wsCalls>>

(* The native side invokes the failure callback of call c with err.         *)
NativeFailure(c, err) ==
    /\ CallFires < MaxFires
    /\ calls' = [calls EXCEPT ![c].promise = OnFailure(calls[c].op, @, err),
                              ![c].first = IF @.kind = "none"
                                           THEN [kind |-> "failure", value |-> err] ELSE @,
                              ![c].fired = @ + 1]
    /\ UNCHANGED <<inits, nativeLog, observables, subs, coord, wsCalls>>

Init ==
    /\ inits = <<>>
    /\ calls = <<>>
    /\ nativeLog = <<>>
    /\ observables = <<>>
    /\ subs = <<>>
    /\ coord = CoordIdle
    /\ wsCalls = <<>>

Next ==
    \/ \E k \in Keys : Initialize(k)
    \/ \E i \in DOMAIN inits, h \in Handles : NativeInitResolve(i, h)
    \/ \E i \in DOMAIN inits, err \in Errors : NativeInitReject(i, err)
    \/ \E i \in DOMAIN inits, op \in PromiseOps \ {"addGeotag"} :
          \E args \in ArgsOf(op) : CallPromiseOp(i, op, args)
    \/ \E i \in DOMAIN inits, d \in GeotagData : AddGeotag(i, d)
    \/ \E i \in DOMAIN inits, d \in GeotagData, geo \in GeoSamples : AddGeotagAt(i, d, geo)
    \/ \E c \in DOMAIN calls, v \in Vals : NativeSuccess(c, v)
    \/ \E c \in DOMAIN calls, err \in Errors : NativeFailure(c, err)

Spec == Init /\ [][Next]_vars

----------------------------------------------------------------------------
(* The facade's event streams, lines 332-374. *)

(* A Subscriber delivers while it is open; error and unsubscribe close it. *)
ObserverNextAlways(sub, v) == [sub EXCEPT !.events = Append(@, v)]

ObserverNext(sub, v) ==
    IF sub.state = "open" THEN [sub EXCEPT !.events = Append(@, v)] ELSE sub
ObserverError(sub, err) ==
    IF sub.state = "open" THEN [sub EXCEPT !.state = "errored", !.error = err] ELSE sub

(* What the Observable's subscribe function invokes for subscription s:    *)
(* mutated, only the first subscription registers a native listener.        *)
SubscribeInvokeShared(op, this, s) ==
    IF s = 1 THEN << Invocation(op, this.cordovaInstanceHandle, <<>>, 0, s) >> ELSE <<>>

SubscribeInvoke(op, this, s) ==
    << Invocation(op, this.cordovaInstanceHandle, <<>>, 0, s) >>

(* The subscribe function returns no teardown: unsubscribing invokes       *)
(* nothing.  Mutated, the teardown disposes the native listener.            *)
DisposeOf(op) ==
    IF op = "trackingStateChange" THEN "disposeTrackingState" ELSE "disposeAvailabilityState"
UnsubscribeInvokeDispose(op, this, s) ==
    << Invocation(DisposeOf(op), this.cordovaInstanceHandle, <<>>, 0, s) >>

UnsubscribeInvoke(op, this, s) == <<>>

(* trackingStateChange() / availabilityStateChange() on the instance of    *)
(* initialize call i: builds the Observable, invokes nothing.               *)
StateChange(i, op) ==
    /\ inits[i].promise.state = "fulfilled"
    /\ observables' = Append(observables, [op |-> op, init |-> i,
                                           this |-> inits[i].promise.value])
    /\ UNCHANGED <<inits, calls, nativeLog, subs, coord, wsCalls>>

(* observable.subscribe(...): the subscribe function runs.                  *)
Subscribe(o) ==
    /\ LET s == Len(subs) + 1
       IN /\ subs' = Append(subs, [obs |-> o, state |-> "open", events |-> <<>>,
                                   error |-> Undefined, history |-> <<>>])
          /\ nativeLog' = nativeLog \o SubscribeInvoke(observables[o].op, observables[o].this, s)
    /\ UNCHANGED <<inits, calls, observables, coord, wsCalls>>

(* subscription.unsubscribe().                                              *)
Unsubscribe(s) ==
    /\ subs[s].state = "open"
    /\ subs' = [subs EXCEPT ![s].state = "unsubscribed",
                            ![s].history = Append(@, [kind |-> "unsubscribe",
                                                      value |-> Undefined])]
    /\ nativeLog' = nativeLog \o UnsubscribeInvoke(observables[subs[s].obs].op,
                                                   observables[subs[s].obs].this, s)
    /\ UNCHANGED <<inits, calls, observables, coord, wsCalls>>

(* The native side invokes the success callback of subscription s with v.   *)
ListenerSuccess(s, v) ==
    /\ subs' = [subs EXCEPT ![s] = [ObserverNext(@, v) EXCEPT
                   !.history = Append(@, [kind |-> "success", value |-> v])]]
    /\ UNCHANGED <<inits, calls, nativeLog, observables, coord, wsCalls>>

(* The native side invokes the failure callback of subscription s with err. *)
ListenerFailure(s, err) ==
    /\ subs' = [subs EXCEPT ![s] = [ObserverError(@, err) EXCEPT
                   !.history = Append(@, [kind |-> "failure", value |-> err])]]
    /\ UNCHANGED <<inits, calls, nativeLog, observables, coord, wsCalls>>

(* disposeTrackingState() / disposeAvailabilityState().                     *)
Dispose(i, op) ==
    /\ Call(i, op, <<>>, NoGeo)

StreamVals == {"v1", "v2"}

(* The streams are studied from the state in which initialize has resolved *)
(* with an instance around some handle h.                                   *)
InitStream ==
    /\ \E k \in Keys, h \in Handles :
          inits = << [key |-> k, nativeKey |-> k,
                      native |-> PromiseResolve(PendingPromise, h),
                      promise |-> InitializeThen(PendingPromise, h)] >>
    /\ calls = <<>>
    /\ nativeLog = <<>>
    /\ observables = <<>>
    /\ subs = <<>>
    /\ coord = CoordIdle
    /\ wsCalls = <<>>

NextStream ==
    \/ /\ StreamOpsDone < MaxStreamOps
       /\ \E i \in DOMAIN inits, op \in StreamOps : StateChange(i, op)
    \/ /\ StreamOpsDone < MaxStreamOps
       /\ \E o \in DOMAIN observables : Subscribe(o)
    \/ \E s \in DOMAIN subs : Unsubscribe(s)
    \/ /\ ListenerFires < MaxEvents
       /\ \E s \in DOMAIN subs, v \in StreamVals : ListenerSuccess(s, v)
    \/ /\ ListenerFires < MaxEvents
       /\ \E s \in DOMAIN subs, err \in Errors : ListenerFailure(s, err)

(* The streams together with the disposal methods and their callbacks.      *)
NextDispose ==
    \/ /\ StreamOpsDone < MaxDisposeOps
       /\ \E i \in DOMAIN inits, op \in StreamOps : StateChange(i, op)
    \/ /\ StreamOpsDone < MaxDisposeOps
       /\ \E o \in DOMAIN observables : Subscribe(o)
    \/ \E s \in DOMAIN subs : Unsubscribe(s)
    \/ /\ ListenerFires < MaxDisposeEvents
       /\ \E s \in DOMAIN subs, v \in StreamVals : ListenerSuccess(s, v)
    \/ /\ ListenerFires < MaxDisposeEvents
       /\ \E s \in DOMAIN subs, err \in Errors : ListenerFailure(s, err)
    \/ /\ StreamOpsDone < MaxDisposeOps
       /\ \E i \in DOMAIN inits, op \in DisposeOps : Dispose(i, op)
    \/ \E c \in DOMAIN calls, v \in Vals : NativeSuccess(c, v)
    \/ \E c \in DOMAIN calls, err \in Errors : NativeFailure(c, err)

SpecStream == InitStream /\ [][NextStream]_vars
SpecDispose == InitStream /\ [][NextDispose]_vars

----------------------------------------------------------------------------
(* Properties of Coordinates, checked under SpecCoord. *)

Outside(x, lo, hi) == ~x.nan /\ (x.n < lo \/ x.n > hi)
Inside(x, lo, hi) == ~x.nan /\ lo <= x.n /\ x.n <= hi

(* C1: once `new Coordinates(latitude, longitude)` has been evaluated, no   *)
(* native method has been invoked; if latitude is outside [-90, 90] or      *)
(* longitude outside [-180, 180] a CoordinatesValidationError was thrown    *)
(* by the constructor itself; if both are inside (limits included) the      *)
(* constructor returned a Coordinates and threw nothing.                    *)
C1_CoordinatesValidation ==
    coord.pc \in {"returned", "thrown"} =>
        /\ nativeLog = <<>>
        /\ (Outside(coord.latitude, LatMin, LatMax) \/ Outside(coord.longitude, LonMin, LonMax))
             => (coord.pc = "thrown" /\ coord.thrown = "CoordinatesValidationError")
        /\ (Inside(coord.latitude, LatMin, LatMax) /\ Inside(coord.longitude, LonMin, LonMax))
             => (coord.pc = "returned" /\ coord.thrown = "none"
                 /\ coord.object.class = "Coordinates")

(* Both limits themselves are accepted. *)
C1_Witness ==
    /\ coord.pc = "returned"
    /\ coord.latitude = Num(LatMax)
    /\ coord.longitude = Num(LonMin)

----------------------------------------------------------------------------
(* Properties of the promise-returning methods, checked under Spec. *)

Fulfilled(v) == [state |-> "fulfilled", value |-> v]
Rejected(err) == [state |-> "rejected", value |-> err]

(* C2, as claimed: for every call of a promise-returning method, if the     *)
(* first native callback was the success callback with v the promise is     *)
(* fulfilled with exactly v, and if it was the failure callback with e the  *)
(* promise is rejected with exactly e.                                      *)
C2_ResolvesWithCallbackValue ==
    \A c \in DOMAIN calls :
        /\ calls[c].first.kind = "success" => calls[c].promise = Fulfilled(calls[c].first.value)
        /\ calls[c].first.kind = "failure" => calls[c].promise = Rejected(calls[c].first.value)

(* C2, amended: getDeviceId, isRunning, isTracking and getAvailability      *)
(* resolve with exactly the value the success callback received; the other  *)
(* promise-returning methods resolve with undefined whatever the success    *)
(* callback received; every method rejects with exactly the error the       *)
(* failure callback received.                                               *)
C2_ResolvesPerMethodKind ==
    \A c \in DOMAIN calls :
        /\ (calls[c].first.kind = "success" /\ calls[c].op \in ValueOps)
             => calls[c].promise = Fulfilled(calls[c].first.value)
        /\ (calls[c].first.kind = "success" /\ calls[c].op \notin ValueOps)
             => calls[c].promise = Fulfilled(Undefined)
        /\ calls[c].first.kind = "failure" => calls[c].promise = Rejected(calls[c].first.value)

(* The success callback of setDeviceName received "v1". *)
C2_Witness ==
    \E c \in DOMAIN calls :
        /\ calls[c].op = "setDeviceName"
        /\ calls[c].first = [kind |-> "success", value |-> "v1"]
        /\ calls[c].promise = Fulfilled(Undefined)

(* C9: a promise of a facade method that has settled keeps its state and    *)
(* its value whatever callback of that call fires next.                     *)
C9_SettlesAtMostOnce ==
    [][\A c \in DOMAIN calls :
          calls[c].promise.state # "pending" => calls'[c].promise = calls[c].promise]_vars

(* A second callback fired for a call whose promise had been fulfilled. *)
C9_Witness ==
    \E c \in DOMAIN calls :
        /\ calls[c].fired >= 2
        /\ calls[c].first.kind = "success"
        /\ calls[c].promise.state = "fulfilled"

LogOf(c) == SelectSeq(nativeLog, LAMBDA e : e.call = c)

(* C6: initialize forwards the key; when the plugin's promise resolves with *)
(* handle h the returned promise is fulfilled with an instance around h,    *)
(* and every method later called on that instance is invoked on h; when     *)
(* the plugin's promise rejects with e the returned promise is rejected     *)
(* with exactly e, so no instance exists.                                   *)
C6_InitializeHandle ==
    /\ \A i \in DOMAIN inits :
          /\ inits[i].nativeKey = inits[i].key
          /\ inits[i].native.state = "pending" => inits[i].promise = PendingPromise
          /\ inits[i].native.state = "fulfilled" =>
                /\ inits[i].promise.state = "fulfilled"
                /\ inits[i].promise.value.cordovaInstanceHandle = inits[i].native.value
          /\ inits[i].native.state = "rejected" =>
                inits[i].promise = Rejected(inits[i].native.value)
    /\ \A c \in DOMAIN calls :
          /\ inits[calls[c].init].native.state = "fulfilled"
          /\ \A n \in DOMAIN LogOf(c) :
                LogOf(c)[n].handle = inits[calls[c].init].native.value

(* getDeviceId was invoked on the handle "h2" initialize had received. *)
C6_Witness ==
    \E c \in DOMAIN calls :
        /\ calls[c].op = "getDeviceId"
        /\ inits[calls[c].init].native = Fulfilled("h2")
        /\ LogOf(c) # <<>>
        /\ LogOf(c)[1].handle = "h2"

(* C7: addGeotag(data, new Coordinates(lat, lon)) invokes the native        *)
(* addGeoTag exactly once, with data unchanged and with an expected         *)
(* location that carries lat and lon.                                       *)
C7_GeotagCarriesCoordinates ==
    \A c \in DOMAIN calls :
        (calls[c].op = "addGeotag" /\ calls[c].geo # NoGeo) =>
            /\ Len(LogOf(c)) = 1
            /\ LogOf(c)[1].method = "addGeoTag"
            /\ LogOf(c)[1].args[1] = calls[c].args[1]
            /\ HasProp(LogOf(c)[1].args[2], "latitude", calls[c].geo[1])
            /\ HasProp(LogOf(c)[1].args[2], "longitude", calls[c].geo[2])

----------------------------------------------------------------------------
(* Properties of the event streams, checked under SpecStream, and of        *)
(* disposal, checked under SpecDispose.                                     *)

RECURSIVE OpenPrefix(_)
(* The longest prefix of a subscription's history made of success           *)
(* callbacks: what fired while the subscriber was open.                      *)
OpenPrefix(h) ==
    IF h = <<>> \/ Head(h).kind # "success" THEN <<>>
    ELSE <<Head(h)>> \o OpenPrefix(Tail(h))

ValuesOf(h) == [n \in DOMAIN h |-> h[n].value]

(* C3: a subscriber has received exactly the values of the success          *)
(* callbacks fired while it was open, one event each, in the order fired;   *)
(* a failure callback with e fired while it was open has terminated it      *)
(* with error e, and nothing fired afterwards has been delivered.           *)
C3_StreamEventsInOrder ==
    \A s \in DOMAIN subs :
        LET h == subs[s].history
            k == Len(OpenPrefix(h)) + 1
        IN /\ subs[s].events = ValuesOf(OpenPrefix(h))
           /\ k > Len(h) => subs[s].state = "open"
           /\ (k <= Len(h) /\ h[k].kind = "failure") =>
                 (subs[s].state = "errored" /\ subs[s].error = h[k].value)
           /\ (k <= Len(h) /\ h[k].kind = "unsubscribe") => subs[s].state = "unsubscribed"

(* Two success callbacks, then a failure callback: two events in the order  *)
(* fired, then the error.                                                   *)
C3_Witness ==
    \E s \in DOMAIN subs :
        /\ Len(subs[s].history) = 3
        /\ subs[s].events = <<"v2", "v1">>
        /\ subs[s].state = "errored"
        /\ subs[s].error = "e2"

IsListener(e) == e.method \in StreamOps
IsDisposal(e) == e.method \in DisposeOps

(* C10: building the stream invokes nothing; every subscription has         *)
(* registered exactly one native listener, of its stream's kind and with    *)
(* its own callbacks, so the registrations number as many as the            *)
(* subscriptions.                                                           *)
C10_ListenerPerSubscription ==
    /\ Len(SelectSeq(nativeLog, IsListener)) = Len(subs)
    /\ \A s \in DOMAIN subs :
          LET mine == SelectSeq(nativeLog, LAMBDA e : IsListener(e) /\ e.sub = s)
          IN /\ Len(mine) = 1
             /\ mine[1].method = observables[subs[s].obs].op
             /\ mine[1].handle = observables[subs[s].obs].this.cordovaInstanceHandle

(* Two subscriptions to one stream: two registrations. *)
C10_Witness ==
    /\ Len(subs) = 2
    /\ subs[1].obs = subs[2].obs
    /\ Len(SelectSeq(nativeLog, IsListener)) = 2

(* C4: every call of a disposal method has invoked the native method of     *)
(* the same name exactly once, and no step that calls a disposal method or  *)
(* settles its promise changes any subscription (no event, no error, no     *)
(* completion).                                                             *)
C4_DisposeOnceNoEvent ==
    /\ [](\A c \in DOMAIN calls :
             calls[c].op \in DisposeOps =>
                 /\ Len(LogOf(c)) = 1
                 /\ LogOf(c)[1].method = calls[c].op)
    /\ [][calls' # calls => subs' = subs]_vars

(* A disposal was called and its promise settled while a subscriber that    *)
(* had received an event stayed open.                                       *)
C4_Witness ==
    /\ \E c \in DOMAIN calls :
          calls[c].op = "disposeTrackingState" /\ calls[c].promise.state = "fulfilled"
    /\ \E s \in DOMAIN subs :
          /\ observables[subs[s].obs].op = "trackingStateChange"
          /\ subs[s].state = "open"
          /\ Len(subs[s].events) = 1

(* C5: the native disposal methods have been invoked exactly as often as    *)
(* the caller called the facade's disposal methods: subscribing,            *)
(* unsubscribing and stream errors invoke none.                             *)
C5_NoAutomaticDispose ==
    Len(SelectSeq(nativeLog, IsDisposal))
        = Len(SelectSeq(calls, LAMBDA c : c.op \in DisposeOps))

(* A subscriber unsubscribed after an event: its listener is registered     *)
(* and no disposal has been invoked.                                        *)
C5_Witness ==
    /\ \E s \in DOMAIN subs :
          subs[s].state = "unsubscribed" /\ Len(subs[s].events) = 1
    /\ SelectSeq(nativeLog, IsListener) # <<>>
    /\ SelectSeq(nativeLog, IsDisposal) = <<>>

----------------------------------------------------------------------------
(* The WebSocketServer wrapper (web-socket-server/index.ts, lines 57-101).  *)
(* Every method is an empty stub under a @Cordova decorator; the decorator  *)
(* options and the declared return type are the source's, the decorator's   *)
(* dispatch on them is the core library's.                                  *)

WsOps == {"getInterfaces", "start", "onMessage", "onOpen", "onClose", "stop", "send", "close"}

(* The methods whose decorator carries `observable: true`.                  *)
WsObservableOption(op) == op = "start"

(* The return type each method declares.                                    *)
WsDeclaredReturn(op) ==
    IF op \in {"start", "onMessage", "onOpen", "onClose"} THEN "Observable" ELSE "Promise"

(* The decorator wraps a method as an event stream when its options say     *)
(* observable, and as a single-result promise otherwise.                    *)
WsWrapStyle(op) == IF WsObservableOption(op) THEN "stream" ELSE "promise"

(* The wrapped method is called.  A promise-style call invokes the native   *)
(* method at once; a stream-style call invokes it on subscription.          *)
WsCall(op) ==
    /\ Len(wsCalls) < MaxWsCalls
    /\ wsCalls' = Append(wsCalls, [op |-> op, style |-> WsWrapStyle(op),
                                   invoked |-> WsWrapStyle(op) = "promise",
                                   promise |-> PendingPromise,
                                   open |-> FALSE, events |-> <<>>, error |-> Undefined,
                                   history |-> <<>>])
    /\ UNCHANGED <<inits, calls, nativeLog, observables, subs, coord>>

WsSubscribe(k) ==
    /\ wsCalls[k].style = "stream"
    /\ ~wsCalls[k].invoked
    /\ wsCalls' = [wsCalls EXCEPT ![k].invoked = TRUE, ![k].open = TRUE]
    /\ UNCHANGED <<inits, calls, nativeLog, observables, subs, coord>>

(* The native side invokes the success callback of call k with v.           *)
WsNativeSuccess(k, v) ==
    /\ wsCalls[k].invoked
    /\ Len(wsCalls[k].history) < MaxWsFires
    /\ wsCalls' = [wsCalls EXCEPT
          ![k].promise = IF wsCalls[k].style = "promise" THEN PromiseResolve(@, v) ELSE @,
          ![k].events = IF wsCalls[k].style = "stream" /\ wsCalls[k].open
                        THEN Append(@, v) ELSE @,
          ![k].history = Append(@, [kind |-> "success", value |-> v])]
    /\ UNCHANGED <<inits, calls, nativeLog, observables, subs, coord>>

(* The native side invokes the failure callback of call k with err.         *)
WsNativeFailure(k, err) ==
    /\ wsCalls[k].invoked
    /\ Len(wsCalls[k].history) < MaxWsFires
    /\ wsCalls' = [wsCalls EXCEPT
          ![k].promise = IF wsCalls[k].style = "promise" THEN PromiseReject(@, err) ELSE @,
          ![k].error = IF wsCalls[k].style = "stream" /\ wsCalls[k].open THEN err ELSE @,
          ![k].open = FALSE,
          ![k].history = Append(@, [kind |-> "failure", value |-> err])]
    /\ UNCHANGED <<inits, calls, nativeLog, observables, subs, coord>>

NextWs ==
    \/ \E op \in WsOps : WsCall(op)
    \/ \E k \in DOMAIN wsCalls : WsSubscribe(k)
    \/ \E k \in DOMAIN wsCalls, v \in StreamVals : WsNativeSuccess(k, v)
    \/ \E k \in DOMAIN wsCalls, err \in Errors : WsNativeFailure(k, err)

SpecWs == Init /\ [][NextWs]_vars

(* What a call has surfaced to its caller: a stream's events, a promise's   *)
(* one result.                                                              *)
WsSurfaced(w) ==
    IF w.style = "stream" THEN w.events
    ELSE IF w.promise.state = "fulfilled" THEN <<w.promise.value>> ELSE <<>>

(* C8: every call of a method declared to return Observable has surfaced    *)
(* one event per success callback fired before any failure, in the order    *)
(* fired.                                                                   *)
C8_DeclaredStreamsAreMultiShot ==
    \A k \in DOMAIN wsCalls :
        WsDeclaredReturn(wsCalls[k].op) = "Observable" =>
            WsSurfaced(wsCalls[k]) = ValuesOf(OpenPrefix(wsCalls[k].history))

====
